---- MODULE Spec2Model ----
(***************************************************************************)
(* Model of gmtSpeechReco (src/speechrecogniation.py): the transcription   *)
(* operations, the microphone recorder and the realtime loop, with the     *)
(* temporary files, the audio stream and the capture device they own.      *)
(* The external collaborators (the Whisper model, PyAudio, the file        *)
(* system) are nondeterministic: each call either succeeds or raises.      *)
(***************************************************************************)
EXTENDS Integers, Sequences, FiniteSets, TLC

VARIABLES
    pc,             \* position of the single thread of control
    op,             \* the public operation the caller invoked
    outcome,        \* "running", "returned" or "raised"
    exc,            \* the exception in flight, NoExc when none
    language,       \* argument: language hint
    duration,       \* argument: duration / chunk_duration
    sample_rate,    \* argument of record_audio
    channels,       \* argument of record_audio
    i,              \* record_audio: loop counter
    frames,         \* record_audio: number of chunks appended to frames
    open_streams,   \* PyAudio streams opened and not closed
    held_devices,   \* PyAudio instances created and not terminated
    capturing,      \* control is inside record_audio's read loop
    wav,            \* header and frame count of the wave file written
    fs,             \* temporary files that exist on disk
    temp_file_path, \* path of the temporary file of the current call (0: none)
    next_temp,      \* next fresh temporary file name
    hint,           \* language keyword passed to model.transcribe
    inferring,      \* control is inside model.transcribe
    recorded,       \* record_audio returned a path in the current chunk
    result,         \* the TranscriptionResult dictionary
    detected,       \* return value of detect_language
    fault,          \* the last exception raised, NoExc when none
    interrupted_at, \* position at which KeyboardInterrupt struck
    canceled,       \* the realtime loop handled KeyboardInterrupt
    chunks,         \* realtime loop: record_and_transcribe calls started
    completed,      \* realtime loop: record_and_transcribe calls that returned
    printed         \* realtime loop: what the last iteration printed

inputs == <<language, duration, sample_rate, channels>>
recv   == <<i, frames, open_streams, held_devices, capturing, wav>>
files  == <<fs, temp_file_path, next_temp>>
mdl    == <<hint, inferring, recorded>>
resv   == <<result, detected>>
hist   == <<fault, interrupted_at, canceled, chunks, completed, printed>>
vars   == <<pc, op, outcome, exc, inputs, recv, files, mdl, resv, hist>>

----------------------------------------------------------------------------
(* Bounds *)
MaxDuration == 2
MaxChunks == 2

(* Program constants *)
chunk == 1024
SampleSize_paInt16 == 2
DefaultSampleRate == 16000
DefaultChannels == 1

None == "<None>"
NoHint == "<no language keyword>"

supported_languages ==
    [c \in {"en", "hi", "es", "fr", "de", "it", "pt", "ru", "ja", "ko", "zh",
            "ar", "bn", "ta", "te", "mr", "gu", "kn", "ml", "pa", "ur"} |->
        CASE c = "en" -> "English"   [] c = "hi" -> "Hindi"
          [] c = "es" -> "Spanish"   [] c = "fr" -> "French"
          [] c = "de" -> "German"    [] c = "it" -> "Italian"
          [] c = "pt" -> "Portuguese" [] c = "ru" -> "Russian"
          [] c = "ja" -> "Japanese"  [] c = "ko" -> "Korean"
          [] c = "zh" -> "Chinese"   [] c = "ar" -> "Arabic"
          [] c = "bn" -> "Bengali"   [] c = "ta" -> "Tamil"
          [] c = "te" -> "Telugu"    [] c = "mr" -> "Marathi"
          [] c = "gu" -> "Gujarati"  [] c = "kn" -> "Kannada"
          [] c = "ml" -> "Malayalam" [] c = "pa" -> "Punjabi"
          [] c = "ur" -> "Urdu"]

(* Inputs the caller may pass *)
Languages == {None, "", "en", "ur", "nl"}
Durations == (-1)..MaxDuration
SampleRates == {512, 8000, 16000}
ChannelCounts == {1, 2}

(* What the external model may return *)
RawTexts == {<<>>, <<" ">>, <<" ", "a", " ">>}
SegmentLists == {<<>>, <<"seg">>}
DetectedLanguages == {"en", "nl"}
ExcMessages == {"", "boom"}

NoExc == [kind |-> "none", msg |-> ""]
NoResult == [success |-> FALSE, text |-> <<>>, language |-> None,
             segments |-> <<>>, error |-> None]
NoWav == [nchannels |-> 0, sampwidth |-> 0, framerate |-> 0, nframes |-> 0]

TaLabels == {"ta_call", "ta_infer"}
RaLabels == {"ra_init", "ra_open", "ra_loop", "ra_mktemp", "ra_write"}
DlLabels == {"dl_load", "dl_detect"}
SessionOps == {"record_and_transcribe", "start_realtime_recognition"}

----------------------------------------------------------------------------
(* Pure helpers *)

RECURSIVE LStrip(_)
LStrip(s) == IF s # <<>> /\ Head(s) = " " THEN LStrip(Tail(s)) ELSE s

RECURSIVE RStrip(_)
RStrip(s) == IF s # <<>> /\ s[Len(s)] = " "
             THEN RStrip(SubSeq(s, 1, Len(s) - 1)) ELSE s

\* str.strip()
Strip(s) == RStrip(LStrip(s))

\* str(e)
Str(e) == e.msg

\* a bare `except:` would also catch KeyboardInterrupt
IsException_Bare(e) == TRUE

\* a handler narrowed to the model's errors would let device errors through
IsException_ModelOnly(e) == e.kind = "model"

\* a handler narrowed to OSError would let the model's errors through
IsException_OSErrorOnly(e) == e.kind \in {"device", "fileio"}

\* `except Exception`: every exception but KeyboardInterrupt
IsException(e) == e.kind # "KeyboardInterrupt"

\* `if language:` without the table lookup
UseHint_NoTable(l) == l # None /\ l # ""

\* `language and language in self.supported_languages`
UseHint(l) == l # None /\ l # "" /\ l \in DOMAIN supported_languages

\* int(x / 1024): Python's int() truncates toward zero
TruncDiv(x, d) == IF x >= 0 THEN x \div d ELSE -((-x) \div d)

\* int(sample_rate // chunk * duration): the quotient truncated too early
NumReads_IntDivFirst(sr, d) == (sr \div chunk) * d

\* int(sample_rate / chunk * duration); the division by 1024 is exact in
\* floating point, so the value is the truncated quotient of the product
NumReads(sr, d) == TruncDiv(sr * d, chunk)

\* the dictionary of both except clauses
FailureResult(e) == [success |-> FALSE, text |-> <<>>, language |-> None,
                     segments |-> <<>>, error |-> Str(e)]

\* the dictionary transcribe_audio returns on success
SuccessResult(txt, lang, segs) ==
    [success |-> TRUE, text |-> Strip(txt), language |-> lang,
     segments |-> segs, error |-> None]

\* record_and_transcribe with the try only around record_audio and a handler
\* that falls through to the transcription
Handler_FallThrough(o, p) ==
    CASE p \in TaLabels -> "ta_except"
      [] p = "ta_except" ->
            IF o = "transcribe_audio" THEN "uncaught"
            ELSE IF o = "transcribe_audio_data" THEN "tad_finally"
            ELSE "rat_except"
      [] p \in RaLabels ->
            IF o = "record_audio" THEN "uncaught" ELSE "ta_call"
      [] p = "rat_cleanup" -> "rat_except"
      [] p = "rat_except" ->
            IF o = "record_and_transcribe" THEN "uncaught" ELSE "rt_except"
      [] p \in {"rt_iter", "rt_report"} -> "rt_except"
      [] p \in DlLabels -> "dl_except"
      [] OTHER -> "uncaught"

\* The handler an exception raised at position p reaches first, given the
\* public operation o on the bottom of the call stack.
Handler(o, p) ==
    CASE p \in TaLabels -> "ta_except"
      [] p = "ta_except" ->
            IF o = "transcribe_audio" THEN "uncaught"
            ELSE IF o = "transcribe_audio_data" THEN "tad_finally"
            ELSE "rat_except"
      [] p \in RaLabels \cup {"rat_cleanup"} ->
            IF o = "record_audio" THEN "uncaught" ELSE "rat_except"
      [] p = "rat_except" ->
            IF o = "record_and_transcribe" THEN "uncaught" ELSE "rt_except"
      [] p \in {"rt_iter", "rt_report"} -> "rt_except"
      [] p \in DlLabels -> "dl_except"
      [] OTHER -> "uncaught"

\* Where control continues when transcribe_audio returns its dictionary.
AfterTranscribe(o) ==
    IF o = "transcribe_audio" THEN "done"
    ELSE IF o = "transcribe_audio_data" THEN "tad_finally"
    ELSE "rat_cleanup"

----------------------------------------------------------------------------
Init ==
    /\ pc = "idle" /\ op = "none" /\ outcome = "running" /\ exc = NoExc
    /\ language = None /\ duration = 0
    /\ sample_rate = DefaultSampleRate /\ channels = DefaultChannels
    /\ i = 0 /\ frames = 0 /\ open_streams = 0 /\ held_devices = 0
    /\ capturing = FALSE /\ wav = NoWav
    /\ fs = {} /\ temp_file_path = 0 /\ next_temp = 1
    /\ hint = NoHint /\ inferring = FALSE /\ recorded = FALSE
    /\ result = NoResult /\ detected = None
    /\ fault = NoExc /\ interrupted_at = "none" /\ canceled = FALSE
    /\ chunks = 0 /\ completed = 0 /\ printed = "nothing"

\* An exception e raised at the current position travels to its handler, or
\* leaves the public operation when there is none.
Raise(e) ==
    LET h == Handler(op, pc) IN
    /\ exc' = e
    /\ fault' = e
    /\ pc' = IF h = "uncaught" THEN "done" ELSE h
    /\ outcome' = IF h = "uncaught" THEN "raised" ELSE outcome
    /\ capturing' = FALSE
    /\ inferring' = FALSE

\* An exception a handler does not catch keeps travelling.
Reraise ==
    LET h == Handler(op, pc) IN
    /\ pc' = IF h = "uncaught" THEN "done" ELSE h
    /\ outcome' = IF h = "uncaught" THEN "raised" ELSE outcome
    /\ UNCHANGED exc

----------------------------------------------------------------------------
(* The caller invokes a public operation *)

Call_transcribe_audio ==
    /\ pc = "idle"
    /\ \E l \in Languages : language' = l
    /\ op' = "transcribe_audio" /\ pc' = "ta_call"
    /\ UNCHANGED <<outcome, exc, duration, sample_rate, channels, recv, files,
                   mdl, resv, hist>>

Call_transcribe_audio_data ==
    /\ pc = "idle"
    /\ \E l \in Languages : language' = l
    /\ op' = "transcribe_audio_data" /\ pc' = "tad_create"
    /\ UNCHANGED <<outcome, exc, duration, sample_rate, channels, recv, files,
                   mdl, resv, hist>>

Call_record_audio ==
    /\ pc = "idle"
    /\ \E d \in Durations, sr \in SampleRates, ch \in ChannelCounts :
          /\ duration' = d /\ sample_rate' = sr /\ channels' = ch
    /\ op' = "record_audio" /\ pc' = "ra_init"
    /\ UNCHANGED <<outcome, exc, language, recv, files, mdl, resv, hist>>

Call_record_and_transcribe ==
    /\ pc = "idle"
    /\ \E d \in Durations, l \in Languages : duration' = d /\ language' = l
    /\ op' = "record_and_transcribe" /\ pc' = "ra_init"
    /\ UNCHANGED <<outcome, exc, sample_rate, channels, recv, files, mdl,
                   resv, hist>>

Call_start_realtime_recognition ==
    /\ pc = "idle"
    /\ \E d \in Durations, l \in Languages : duration' = d /\ language' = l
    /\ op' = "start_realtime_recognition" /\ pc' = "rt_iter"
    /\ UNCHANGED <<outcome, exc, sample_rate, channels, recv, files, mdl,
                   resv, hist>>

Call_detect_language ==
    /\ pc = "idle"
    /\ op' = "detect_language" /\ pc' = "dl_load"
    /\ UNCHANGED <<outcome, exc, inputs, recv, files, mdl, resv, hist>>

----------------------------------------------------------------------------
(* transcribe_audio *)

\* lines 60-63: choose the call with or without the language keyword
ta_call ==
    /\ pc = "ta_call"
    /\ hint' = IF UseHint(language) THEN language ELSE NoHint
    /\ inferring' = TRUE
    /\ pc' = "ta_infer"
    /\ UNCHANGED <<op, outcome, exc, inputs, recv, files, recorded, resv, hist>>

\* lines 61/63 return, lines 65-71
ta_infer_ok ==
    /\ pc = "ta_infer"
    /\ \E txt \in RawTexts, segs \in SegmentLists, det \in DetectedLanguages :
          result' = SuccessResult(txt, IF hint # NoHint THEN hint ELSE det, segs)
    /\ inferring' = FALSE
    /\ pc' = AfterTranscribe(op)
    /\ outcome' = IF op = "transcribe_audio" THEN "returned" ELSE outcome
    /\ UNCHANGED <<op, exc, inputs, recv, files, hint, recorded, detected, hist>>

\* lines 61/63 raise
ta_infer_fail ==
    /\ pc = "ta_infer"
    /\ \E m \in ExcMessages : Raise([kind |-> "model", msg |-> m])
    /\ UNCHANGED <<op, inputs, i, frames, open_streams, held_devices, wav,
                   files, hint, recorded, resv, interrupted_at, canceled,
                   chunks, completed, printed>>

\* lines 73-80
ta_except ==
    /\ pc = "ta_except"
    /\ IF IsException(exc)
       THEN /\ result' = FailureResult(exc)
            /\ exc' = NoExc
            /\ pc' = AfterTranscribe(op)
            /\ outcome' = IF op = "transcribe_audio" THEN "returned" ELSE outcome
       ELSE /\ Reraise
            /\ UNCHANGED result
    /\ UNCHANGED <<op, inputs, recv, files, mdl, detected, hist>>

----------------------------------------------------------------------------
(* transcribe_audio_data *)

\* line 94: NamedTemporaryFile(delete=False) creates the file
tad_create_ok ==
    /\ pc = "tad_create"
    /\ fs' = fs \cup {next_temp}
    /\ temp_file_path' = next_temp
    /\ next_temp' = next_temp + 1
    /\ pc' = "tad_write"
    /\ UNCHANGED <<op, outcome, exc, inputs, recv, mdl, resv, hist>>

tad_create_fail ==
    /\ pc = "tad_create"
    /\ \E m \in ExcMessages : Raise([kind |-> "fileio", msg |-> m])
    /\ UNCHANGED <<op, inputs, i, frames, open_streams, held_devices, wav,
                   files, hint, recorded, resv, interrupted_at, canceled,
                   chunks, completed, printed>>

\* lines 95-96, then the call of line 100
tad_write_ok ==
    /\ pc = "tad_write"
    /\ pc' = "ta_call"
    /\ UNCHANGED <<op, outcome, exc, inputs, recv, files, mdl, resv, hist>>

\* line 95 raises: the with block closes the file, nothing deletes it
tad_write_fail ==
    /\ pc = "tad_write"
    /\ \E m \in ExcMessages : Raise([kind |-> "fileio", msg |-> m])
    /\ UNCHANGED <<op, inputs, i, frames, open_streams, held_devices, wav,
                   files, hint, recorded, resv, interrupted_at, canceled,
                   chunks, completed, printed>>

\* lines 103-106, then return result or let the exception continue
tad_finally ==
    /\ pc = "tad_finally"
    /\ fs' = fs \ {temp_file_path}
    /\ pc' = "done"
    /\ outcome' = IF exc = NoExc THEN "returned" ELSE "raised"
    /\ UNCHANGED <<op, exc, inputs, recv, temp_file_path, next_temp, mdl,
                   resv, hist>>

----------------------------------------------------------------------------
(* record_audio *)

\* line 137: pyaudio.PyAudio()
ra_init_ok ==
    /\ pc = "ra_init"
    /\ held_devices' = held_devices + 1
    /\ recorded' = FALSE
    /\ pc' = "ra_open"
    /\ UNCHANGED <<op, outcome, exc, inputs, i, frames, open_streams,
                   capturing, wav, files, hint, inferring, resv, hist>>

ra_init_fail ==
    /\ pc = "ra_init"
    /\ \E m \in ExcMessages : Raise([kind |-> "device", msg |-> m])
    /\ UNCHANGED <<op, inputs, i, frames, open_streams, held_devices, wav,
                   files, hint, recorded, resv, interrupted_at, canceled,
                   chunks, completed, printed>>

\* lines 140-146: p.open(...), frames = []
ra_open_ok ==
    /\ pc = "ra_open"
    /\ open_streams' = open_streams + 1
    /\ i' = 0 /\ frames' = 0
    /\ capturing' = TRUE
    /\ pc' = "ra_loop"
    /\ UNCHANGED <<op, outcome, exc, inputs, held_devices, wav, files, mdl,
                   resv, hist>>

\* line 140 raises: the PyAudio instance is not terminated
ra_open_fail ==
    /\ pc = "ra_open"
    /\ \E m \in ExcMessages : Raise([kind |-> "device", msg |-> m])
    /\ UNCHANGED <<op, inputs, i, frames, open_streams, held_devices, wav,
                   files, hint, recorded, resv, interrupted_at, canceled,
                   chunks, completed, printed>>

\* lines 149-156: one iteration; the progress test divides by
\* sample_rate // chunk
ra_read_ok ==
    /\ pc = "ra_loop"
    /\ i < NumReads(sample_rate, duration)
    /\ frames' = frames + 1
    /\ IF sample_rate \div chunk = 0
       THEN /\ Raise([kind |-> "arith", msg |-> "integer modulo by zero"])
            /\ UNCHANGED i
       ELSE /\ i' = i + 1
            /\ UNCHANGED <<pc, outcome, exc, capturing, inferring, fault>>
    /\ UNCHANGED <<op, inputs, open_streams, held_devices, wav, files, hint,
                   recorded, resv, interrupted_at, canceled, chunks, completed,
                   printed>>

\* line 150 raises
ra_read_fail ==
    /\ pc = "ra_loop"
    /\ i < NumReads(sample_rate, duration)
    /\ \E m \in ExcMessages : Raise([kind |-> "device", msg |-> m])
    /\ UNCHANGED <<op, inputs, i, frames, open_streams, held_devices, wav,
                   files, hint, recorded, resv, interrupted_at, canceled,
                   chunks, completed, printed>>

\* lines 158-163: the loop is over; stop_stream, close, terminate
ra_close ==
    /\ pc = "ra_loop"
    /\ i >= NumReads(sample_rate, duration)
    /\ open_streams' = open_streams - 1
    /\ held_devices' = held_devices - 1
    /\ capturing' = FALSE
    /\ pc' = "ra_mktemp"
    /\ UNCHANGED <<op, outcome, exc, inputs, i, frames, wav, files, mdl, resv,
                   hist>>

\* lines 166-168: NamedTemporaryFile(delete=False)
ra_mktemp_ok ==
    /\ pc = "ra_mktemp"
    /\ fs' = fs \cup {next_temp}
    /\ temp_file_path' = next_temp
    /\ next_temp' = next_temp + 1
    /\ pc' = "ra_write"
    /\ UNCHANGED <<op, outcome, exc, inputs, recv, mdl, resv, hist>>

ra_mktemp_fail ==
    /\ pc = "ra_mktemp"
    /\ \E m \in ExcMessages : Raise([kind |-> "fileio", msg |-> m])
    /\ UNCHANGED <<op, inputs, i, frames, open_streams, held_devices, wav,
                   files, hint, recorded, resv, interrupted_at, canceled,
                   chunks, completed, printed>>

\* lines 171-178: write the wave file, return its path; in
\* record_and_transcribe control continues with line 196
ra_write_ok ==
    /\ pc = "ra_write"
    /\ wav' = [nchannels |-> channels, sampwidth |-> SampleSize_paInt16,
               framerate |-> sample_rate, nframes |-> frames * chunk]
    /\ recorded' = TRUE
    /\ pc' = IF op = "record_audio" THEN "done" ELSE "ta_call"
    /\ outcome' = IF op = "record_audio" THEN "returned" ELSE outcome
    /\ UNCHANGED <<op, exc, inputs, i, frames, open_streams, held_devices,
                   capturing, files, hint, inferring, resv, hist>>

\* lines 171-176 raise: the temporary file exists and its path is lost
ra_write_fail ==
    /\ pc = "ra_write"
    /\ \E m \in ExcMessages : Raise([kind |-> "fileio", msg |-> m])
    /\ UNCHANGED <<op, inputs, i, frames, open_streams, held_devices, wav,
                   files, hint, recorded, resv, interrupted_at, canceled,
                   chunks, completed, printed>>

----------------------------------------------------------------------------
(* record_and_transcribe *)

\* lines 198-202: transcribe_audio returned; delete the file, return result
rat_cleanup ==
    /\ pc = "rat_cleanup"
    /\ fs' = fs \ {temp_file_path}
    /\ IF op = "record_and_transcribe"
       THEN /\ pc' = "done" /\ outcome' = "returned"
            /\ UNCHANGED completed
       ELSE /\ pc' = "rt_report" /\ completed' = completed + 1
            /\ UNCHANGED outcome
    /\ UNCHANGED <<op, exc, inputs, recv, temp_file_path, next_temp, mdl, resv,
                   fault, interrupted_at, canceled, chunks, printed>>

\* lines 204-211
rat_except ==
    /\ pc = "rat_except"
    /\ IF IsException(exc)
       THEN /\ result' = FailureResult(exc)
            /\ exc' = NoExc
            /\ IF op = "record_and_transcribe"
               THEN /\ pc' = "done" /\ outcome' = "returned"
                    /\ UNCHANGED completed
               ELSE /\ pc' = "rt_report" /\ completed' = completed + 1
                    /\ UNCHANGED outcome
       ELSE /\ Reraise
            /\ UNCHANGED <<result, completed>>
    /\ UNCHANGED <<op, inputs, recv, files, mdl, detected, fault,
                   interrupted_at, canceled, chunks, printed>>

----------------------------------------------------------------------------
(* start_realtime_recognition *)

\* lines 226-229: the next iteration calls record_and_transcribe
rt_iter ==
    /\ pc = "rt_iter"
    /\ chunks < MaxChunks
    /\ chunks' = chunks + 1
    /\ result' = NoResult
    /\ recorded' = FALSE
    /\ pc' = "ra_init"
    /\ UNCHANGED <<op, outcome, exc, inputs, recv, files, hint, inferring,
                   detected, fault, interrupted_at, canceled, completed,
                   printed>>

\* lines 231-235
rt_report ==
    /\ pc = "rt_report"
    /\ printed' = IF result.success /\ Strip(result.text) # <<>>
                  THEN "transcription"
                  ELSE IF result.error # None /\ result.error # ""
                  THEN "error" ELSE "nothing"
    /\ pc' = "rt_iter"
    /\ UNCHANGED <<op, outcome, exc, inputs, recv, files, mdl, resv, fault,
                   interrupted_at, canceled, chunks, completed>>

\* Ctrl+C: KeyboardInterrupt is raised wherever the thread of control is
Interrupt ==
    /\ op = "start_realtime_recognition"
    /\ pc \in TaLabels \cup RaLabels \cup {"rat_cleanup", "rt_iter", "rt_report"}
    /\ interrupted_at = "none"
    /\ interrupted_at' = pc
    /\ Raise([kind |-> "KeyboardInterrupt", msg |-> ""])
    /\ UNCHANGED <<op, inputs, i, frames, open_streams, held_devices, wav,
                   files, hint, recorded, resv, canceled, chunks, completed,
                   printed>>

\* lines 237-238
rt_except ==
    /\ pc = "rt_except"
    /\ IF exc.kind = "KeyboardInterrupt"
       THEN /\ canceled' = TRUE
            /\ exc' = NoExc
            /\ pc' = "done" /\ outcome' = "returned"
       ELSE /\ Reraise
            /\ UNCHANGED canceled
    /\ UNCHANGED <<op, inputs, recv, files, mdl, resv, fault, interrupted_at,
                   chunks, completed, printed>>

----------------------------------------------------------------------------
(* detect_language *)

\* lines 252-256: load_audio, pad_or_trim, log_mel_spectrogram
dl_load_ok ==
    /\ pc = "dl_load"
    /\ pc' = "dl_detect"
    /\ UNCHANGED <<op, outcome, exc, inputs, recv, files, mdl, resv, hist>>

dl_load_fail ==
    /\ pc = "dl_load"
    /\ \E m \in ExcMessages : Raise([kind |-> "model", msg |-> m])
    /\ UNCHANGED <<op, inputs, i, frames, open_streams, held_devices, wav,
                   files, hint, recorded, resv, interrupted_at, canceled,
                   chunks, completed, printed>>

\* lines 259-262: the code of the highest probability
dl_detect_ok ==
    /\ pc = "dl_detect"
    /\ \E lang \in DetectedLanguages : detected' = lang
    /\ pc' = "done" /\ outcome' = "returned"
    /\ UNCHANGED <<op, exc, inputs, recv, files, mdl, result, hist>>

dl_detect_fail ==
    /\ pc = "dl_detect"
    /\ \E m \in ExcMessages : Raise([kind |-> "model", msg |-> m])
    /\ UNCHANGED <<op, inputs, i, frames, open_streams, held_devices, wav,
                   files, hint, recorded, resv, interrupted_at, canceled,
                   chunks, completed, printed>>

\* lines 264-265
dl_except ==
    /\ pc = "dl_except"
    /\ IF IsException(exc)
       THEN /\ detected' = "unknown"
            /\ exc' = NoExc
            /\ pc' = "done" /\ outcome' = "returned"
       ELSE /\ Reraise
            /\ UNCHANGED detected
    /\ UNCHANGED <<op, inputs, recv, files, mdl, result, hist>>

----------------------------------------------------------------------------
Next ==
    \/ Call_transcribe_audio \/ Call_transcribe_audio_data
    \/ Call_record_audio \/ Call_record_and_transcribe
    \/ Call_start_realtime_recognition \/ Call_detect_language
    \/ ta_call \/ ta_infer_ok \/ ta_infer_fail \/ ta_except
    \/ tad_create_ok \/ tad_create_fail \/ tad_write_ok \/ tad_write_fail
    \/ tad_finally
    \/ ra_init_ok \/ ra_init_fail \/ ra_open_ok \/ ra_open_fail
    \/ ra_read_ok \/ ra_read_fail \/ ra_close
    \/ ra_mktemp_ok \/ ra_mktemp_fail \/ ra_write_ok \/ ra_write_fail
    \/ rat_cleanup \/ rat_except
    \/ rt_iter \/ rt_report \/ Interrupt \/ rt_except
    \/ dl_load_ok \/ dl_load_fail \/ dl_detect_ok \/ dl_detect_fail
    \/ dl_except

Spec == Init /\ [][Next]_vars

----------------------------------------------------------------------------
(* Properties *)

Abs(x) == IF x < 0 THEN -x ELSE x

Realtime == op = "start_realtime_recognition"

\* The phase of a session, after the state machine of the design.
Phase ==
    IF pc \in RaLabels THEN "Recording"
    ELSE IF pc \in TaLabels \cup {"ta_except", "rat_cleanup"} THEN "Transcribing"
    ELSE IF canceled THEN "Canceled"
    ELSE "Idle"

\* C1: whenever record_and_transcribe has ended, with a success or a failure
\* result, no temporary file created by record_audio exists any more.
CE_C1 == (op = "record_and_transcribe" /\ pc = "done") => fs = {}

\* C2: whenever transcribe_audio_data has ended, by return or by an exception,
\* the temporary file it created does not exist.
CE_C2 == (op = "transcribe_audio_data" /\ pc = "done") => fs = {}

\* C3: whenever record_audio has ended, by return or by a raised error, no
\* stream is open and no capture device is held.
CE_C3 == (op = "record_audio" /\ pc = "done")
            => (open_streams = 0 /\ held_devices = 0)

Step_C5 ==
    Realtime =>
        /\ (pc = "rat_except" /\ exc.kind \in {"device", "model", "fileio"})
              => (pc' = "rt_report" /\ ~result'.success)
        /\ (pc = "ta_except" /\ exc.kind = "model")
              => (pc' = "rat_cleanup" /\ ~result'.success)
        /\ (pc = "rat_cleanup" /\ interrupted_at' = "none") => pc' = "rt_report"
        /\ (pc = "rt_report" /\ interrupted_at' = "none") => pc' = "rt_iter"
        /\ (pc = "rt_iter" /\ interrupted_at' = "none") => pc' = "ra_init"
        /\ pc' = "done" => (canceled' /\ outcome' = "returned")

Thm_C5 == [][Step_C5]_vars

\* the first chunk failed on the device or the model and the loop is
\* recording the second chunk
Wit_C5 ==
    /\ Realtime /\ interrupted_at = "none"
    /\ chunks = 2 /\ completed = 1
    /\ fault.kind \in {"device", "model"}
    /\ ~result.success
    /\ pc = "ra_open"

\* C6: when a failure of the model or of the capture device ended
\* transcribe_audio, transcribe_audio_data, record_and_transcribe or
\* detect_language, the operation returned: a failure result carrying the
\* exception's message for the first three, 'unknown' for detect_language.
Thm_C6 ==
    (/\ pc = "done"
     /\ op \in {"transcribe_audio", "transcribe_audio_data",
                "record_and_transcribe", "detect_language"}
     /\ fault.kind \in {"model", "device"})
    => /\ outcome = "returned"
       /\ exc = NoExc
       /\ IF op = "detect_language"
          THEN detected = "unknown"
          ELSE ~result.success /\ result.error = fault.msg

\* transcribe_audio_data returned a failure result after the model raised
Wit_C6 ==
    /\ pc = "done" /\ op = "transcribe_audio_data"
    /\ fault.kind = "model" /\ fault.msg = "boom"
    /\ outcome = "returned"
    /\ ~result.success /\ result.error = "boom"

\* C7: every result returned by transcribe_audio, transcribe_audio_data and
\* record_and_transcribe has, when success is false, an empty text, no
\* segments, no language and a non-empty error string, and, when success is
\* true, no error.
CE_C7 ==
    (/\ pc = "done" /\ outcome = "returned"
     /\ op \in {"transcribe_audio", "transcribe_audio_data",
                "record_and_transcribe"})
    => IF result.success
       THEN result.error = None
       ELSE /\ result.text = <<>>
            /\ result.segments = <<>>
            /\ result.language = None
            /\ result.error # None
            /\ result.error # ""

\* C8: a session moves Idle -> Recording -> Transcribing -> Idle, a failed
\* recording going back to Idle; the model is entered only from a recording
\* that returned a path of an existing file with no exception in flight;
\* capture and inference are never active together; Canceled is terminal.
Step_C8 ==
    (op \in SessionOps) =>
        /\ ~(capturing' /\ inferring')
        /\ <<Phase, Phase'>> \in
              {<<"Idle", "Idle">>, <<"Idle", "Recording">>,
               <<"Recording", "Recording">>, <<"Recording", "Transcribing">>,
               <<"Recording", "Idle">>, <<"Transcribing", "Transcribing">>,
               <<"Transcribing", "Idle">>, <<"Idle", "Canceled">>,
               <<"Canceled", "Canceled">>}
        /\ (Phase # "Transcribing" /\ Phase' = "Transcribing")
              => (recorded' /\ temp_file_path' \in fs' /\ exc' = NoExc)
        /\ (~inferring /\ inferring')
              => (recorded /\ temp_file_path \in fs /\ ~capturing)
        /\ (~capturing /\ capturing') => ~inferring
        /\ canceled => (~capturing' /\ ~inferring' /\ pc' = "done")

Thm_C8 == [][Step_C8]_vars

\* the loop is inside the model for its second chunk, after a first chunk
\* whose recording failed
Wit_C8 ==
    /\ Realtime /\ chunks = 2 /\ completed = 1
    /\ fault.kind = "device"
    /\ pc = "ta_infer" /\ inferring /\ recorded /\ ~capturing

\* C9: transcribe_audio calls the model with the language keyword exactly
\* when the language is a key of the 21-entry table, and without it for
\* None, the empty string and codes outside the table; the choice itself
\* never fails the call.
Step_C9 ==
    pc = "ta_call" =>
        \/ exc'.kind = "KeyboardInterrupt"
        \/ /\ pc' = "ta_infer" /\ exc' = NoExc
           /\ hint' = IF language \in DOMAIN supported_languages
                      THEN language ELSE NoHint

Thm_C9 == [][Step_C9]_vars

\* the model is running without a hint for a code outside the table
Wit_C9 == pc = "ta_infer" /\ language = "nl" /\ hint = NoHint

\* C10 (as stated): whenever record_audio completes, the frames written
\* differ from duration * sample_rate by less than one chunk and the header
\* declares the requested rate, the requested channels and 16 bits.
CE_C10 ==
    (op = "record_audio" /\ pc = "done" /\ outcome = "returned")
    => /\ wav.nframes = NumReads(sample_rate, duration) * chunk
       /\ Abs(wav.nframes - duration * sample_rate) < chunk
       /\ wav.framerate = sample_rate
       /\ wav.nchannels = channels
       /\ wav.sampwidth * 8 = 16

\* C10 (amended): the same for every non-negative duration.
Thm_C10 ==
    (op = "record_audio" /\ pc = "done" /\ outcome = "returned"
     /\ duration >= 0)
    => /\ wav.nframes = TruncDiv(sample_rate * duration, 1024) * 1024
       /\ Abs(wav.nframes - duration * sample_rate) < 1024
       /\ wav.framerate = sample_rate
       /\ wav.nchannels = channels
       /\ wav.sampwidth * 8 = 16

\* two seconds at 8000 Hz: 15 reads, 15360 frames for 16000 samples
Wit_C10 ==
    /\ op = "record_audio" /\ pc = "done" /\ outcome = "returned"
    /\ duration = 2 /\ sample_rate = 8000 /\ channels = 2
    /\ wav.nframes = 15360

====
